---- MODULE Spec2Model ----
(***************************************************************************)
(* Model of the dataset pipeline of pinpoint.linush.org:                   *)
(*   src/server.py           the HTTP handlers (save, delete, proxy_map),  *)
(*                           build_query and parse_results                 *)
(*   src/manage_datasets.py  the interactive dataset manager (main)        *)
(*                                                                         *)
(* Strings the code builds are modelled by their parts: an id              *)
(* "custom_<t>" is the pair <<"custom_", t>>, a filename                   *)
(* "dataset_<t>.json" is <<"dataset_", t>>, a subject URI is the sequence  *)
(* of its '/'-separated segments, a WKT literal is a sequence of tokens,   *)
(* and a query is the sequence of its lines.                               *)
(***************************************************************************)
EXTENDS Integers, Sequences, FiniteSets, TLC

VARIABLES
    now,        \* int(time.time()): the wall clock in whole seconds
    docExists,  \* os.path.exists("datasets.json")
    docParses,  \* json.load of datasets.json returns (it raises when FALSE)
    datasets,   \* the entries written in datasets.json (meaningful when docExists)
    files,      \* static/<filename> -> the records stored in that data file
    last,       \* the request handled last and the answer it got
    rmFailed,   \* some os.remove of a data file has raised (history)
    procs,      \* concurrent writers: each one's position and local variables
    started,    \* number of requests the concurrent writers have begun (history)
    lastWriter, \* the request that wrote datasets.json last (history)
    cache,      \* static/maps/<key> -> bytes of the cached shape file
    fetches,    \* the requested urls whose upstream request succeeded (history)
    mapResp,    \* the proxy_map request handled last and its response
    pinput,     \* parse_results: its arguments
    poutput,    \* parse_results: its return value
    qinput,     \* build_query: its argument
    qoutput     \* build_query: its return value

storeVars == <<now, docExists, docParses, datasets, files, last, rmFailed>>
raceVars  == <<procs, started, lastWriter>>
cacheVars == <<cache, fetches, mapResp>>
parseVars == <<pinput, poutput>>
queryVars == <<qinput, qoutput>>
vars == <<now, docExists, docParses, datasets, files, last, rmFailed, procs, started, lastWriter,
          cache, fetches, mapResp, pinput, poutput, qinput, qoutput>>

-----------------------------------------------------------------------------
(* Bounds *)

\* the clock runs over 0..MaxTime
MaxTime == 1
\* requests the concurrent writers begin in one run
MaxRequests == 3
\* creations stop once the store holds this many entries
MaxEntries == 2
\* binding rows in one query result handed to parse_results
MaxRows == 3
\* constraints in one DatasetConfig handed to build_query
MaxConstraints == 2

Min(a, b) == IF a < b THEN a ELSE b

-----------------------------------------------------------------------------
(* parse_results *)

\* A binding row is a JSON object; each of its keys is modelled by a sequence:
\* <<>> when the row does not have the key, <<v>> when row[key]['value'] is v.
Missing == <<>>
\* What one pass of the try block yields: <<>> when it raised, <<entry>> else.
Raised == <<>>

Digits == {"1", "2"}
DigitVal(c) == IF c = "1" THEN 1 ELSE 2

\* wkt.replace("Point(", "").replace(")", "")
wkt_clean(wkt) == SelectSeq(wkt, LAMBDA c : c \notin {"Point(", ")"})

\* str.split(): the maximal runs of non-blank characters, in order
RECURSIVE split_ws(_, _, _)
split_ws(s, word, acc) ==
    IF s = <<>> THEN (IF word = <<>> THEN acc ELSE Append(acc, word))
    ELSE IF Head(s) = " "
         THEN split_ws(Tail(s), <<>>, IF word = <<>> THEN acc ELSE Append(acc, word))
         ELSE split_ws(Tail(s), Append(word, Head(s)), acc)

RECURSIVE digits_value(_, _)
digits_value(w, v) ==
    IF w = <<>> THEN v ELSE digits_value(Tail(w), 10 * v + DigitVal(Head(w)))

\* float(word): the number, or ValueError
to_float(word) ==
    IF \A i \in 1..Len(word) : word[i] \in Digits
    THEN [ok |-> TRUE, value |-> digits_value(word, 0)]
    ELSE [ok |-> FALSE, value |-> 0]

\* the body of the try block for one binding row
parse_item(item, dataset_type) ==
    IF item.itemLabel = Missing \/ item.item = Missing THEN Raised
    ELSE LET label == item.itemLabel[1]
             uri   == item.item[1]
             id    == uri[Len(uri)]
         IN IF dataset_type = "point"
            THEN IF item.coord = Missing THEN Raised
                 ELSE LET parts == split_ws(wkt_clean(item.coord[1]), <<>>, <<>>)
                      IN IF Len(parts) # 2 THEN Raised
                         ELSE LET lon == to_float(parts[1])
                                  lat == to_float(parts[2])
                              IN IF ~lon.ok \/ ~lat.ok THEN Raised
                                 ELSE <<[label |-> label, id |-> id,
                                         lat |-> lat.value, lng |-> lon.value]>>
            ELSE IF dataset_type = "polygon"
            THEN IF item.geoShapeUrl = Missing THEN Raised
                 ELSE <<[label |-> label, id |-> id,
                         geoShapeUrl |-> item.geoShapeUrl[1]]>>
            ELSE <<[label |-> label, id |-> id]>>

RECURSIVE parse_loop_abort(_, _, _)
parse_loop_abort(bindings, dataset_type, results) ==
    IF bindings = <<>> THEN results
    ELSE LET entry == parse_item(Head(bindings), dataset_type)
         IN IF entry = Raised THEN results
            ELSE parse_loop_abort(Tail(bindings), dataset_type, results \o entry)

\* the loop over the bindings: a row that raised is skipped (continue)
RECURSIVE parse_loop(_, _, _)
parse_loop(bindings, dataset_type, results) ==
    IF bindings = <<>> THEN results
    ELSE parse_loop(Tail(bindings), dataset_type,
                    results \o parse_item(Head(bindings), dataset_type))

parse_results(bindings, dataset_type) == parse_loop(bindings, dataset_type, <<>>)

-----------------------------------------------------------------------------
(* The dataset store: datasets.json and the data files under static/ *)

\* SaveRequest.id when the client sent none (None), and the empty string;
\* `if req.id:` takes both for "no id".
None    == <<"None", 0>>
EmptyId == <<"", 0>>
Truthy(id) == id \notin {None, EmptyId}

\* f"custom_{int(time.time())}"
custom_id(t) == <<"custom_", t>>
\* f"dataset_{int(time.time())}.json"
dataset_filename(t) == <<"dataset_", t>>

Times == 0..MaxTime
Ids == {custom_id(t) : t \in Times}

\* name, description, templates and config of a request travel together and
\* are modelled by `name`; `type` is config.dataset_type.
Metas == {[name |-> "n1", type |-> "point"], [name |-> "n2", type |-> "polygon"]}
SaveRequests == {[id |-> i, name |-> m.name, type |-> m.type] :
                    i \in Ids \cup {None, EmptyId}, m \in Metas}

data_keys(type) ==
    IF type = "point" THEN {"label", "lat", "lng"} ELSE {"label", "geoShapeUrl"}

new_entry(dataset_id, req, filename) ==
    [id |-> dataset_id, name |-> req.name, type |-> req.type,
     filename |-> filename, data_keys |-> data_keys(req.type)]

\* next((d for d in datasets if d['id'] == id), None): the position of the
\* first entry with that id, 0 for None
RECURSIVE first_index(_, _, _)
first_index(ds, id, i) ==
    IF i > Len(ds) THEN 0
    ELSE IF ds[i].id = id THEN i ELSE first_index(ds, id, i + 1)

find_entry(ds, id) == first_index(ds, id, 1)

replace_entry_moved(ds, id, entry) ==
    Append(SelectSeq(ds, LAMBDA d : d.id # id), entry)

\* for i, d in enumerate(datasets): if d['id'] == req.id: datasets[i] = new_entry; break
replace_entry(ds, id, entry) ==
    LET i == find_entry(ds, id)
    IN IF i = 0 THEN ds ELSE [ds EXCEPT ![i] = entry]

\* [d for d in datasets if d['id'] != req.id]
remove_entries(ds, id) == SelectSeq(ds, LAMBDA d : d.id # id)

\* with open(filepath, "w") as f: json.dump(data, f)
write_file(fs, filename, data) ==
    [f \in DOMAIN fs \cup {filename} |-> IF f = filename THEN data ELSE fs[f]]

\* os.remove(filepath)
remove_file(fs, filename) == [f \in DOMAIN fs \ {filename} |-> fs[f]]

\* what the query endpoint answered: ok = FALSE is fetch_sparql's None
FetchFailed == [ok |-> FALSE, bindings |-> <<>>]
FullRow(n) == [itemLabel |-> <<"L">>, item |-> <<<<"entity", n>>>>,
               coord |-> <<<<"Point(", "1", " ", "2", ")">>>>,
               geoShapeUrl |-> <<"shape">>]
BareRow == [itemLabel |-> <<"L">>, item |-> <<<<"entity", "Q3">>>>,
            coord |-> Missing, geoShapeUrl |-> Missing]
GoodAnswer == [ok |-> TRUE, bindings |-> <<BareRow, FullRow("Q2")>>]
Answers == {FetchFailed,
            [ok |-> TRUE, bindings |-> <<BareRow>>],
            GoodAnswer}

\* datasets = []; if os.path.exists("datasets.json"):
\*     try: datasets = json.load(f)
\*     except: pass
load_datasets(exists, parses, ds) == IF exists /\ parses THEN ds ELSE <<>>

\* the HTTP status api_save answers with
save_status(req, raw, loaded) ==
    IF ~raw.ok THEN 500
    ELSE IF parse_results(raw.bindings, req.type) = <<>> THEN 400
    ELSE IF Truthy(req.id) /\ find_entry(loaded, req.id) = 0 THEN 404
    ELSE 200

\* "Determine ID and Filename": t1 and t2 are the two readings of the clock
save_id(req, t1) == IF Truthy(req.id) THEN req.id ELSE custom_id(t1)
save_filename(req, loaded, t2) ==
    IF Truthy(req.id)
    THEN LET i == find_entry(loaded, req.id)
         IN IF i = 0 THEN dataset_filename(t2) ELSE loaded[i].filename
    ELSE dataset_filename(t2)

\* "2. Save Data File": reached only by a request that was not answered with
\* an error before
save_data_file_early(fs, status, filename, data) ==
    IF status \in {200, 400} THEN write_file(fs, filename, data) ELSE fs

save_data_file(fs, status, filename, data) ==
    IF status = 200 THEN write_file(fs, filename, data) ELSE fs

\* "3. Update datasets.json"
save_datasets(loaded, req, entry) ==
    IF Truthy(req.id) THEN replace_entry(loaded, req.id, entry)
    ELSE Append(loaded, entry)

\* what `last` records: the operation, the HTTP status it answered, the id it
\* looked up (None when it did not get that far) and the name it stored
Answer(op, id, name, status) ==
    [op |-> op, id |-> id, name |-> name, status |-> status]

\* POST /api/save. The handler is a coroutine that never awaits, so within
\* the server process it runs from its first line to its last.
api_save(req, raw, t2) ==
    LET loaded   == load_datasets(docExists, docParses, datasets)
        status   == save_status(req, raw, loaded)
        parsed   == parse_results(raw.bindings, req.type)
        id       == save_id(req, now)
        filename == save_filename(req, loaded, t2)
    IN /\ (status = 200 /\ ~Truthy(req.id)) => Len(loaded) < MaxEntries
       /\ files' = save_data_file(files, status, filename, parsed)
       /\ IF status = 200
          THEN /\ datasets' = save_datasets(loaded, req, new_entry(id, req, filename))
               /\ docExists' = TRUE
               /\ docParses' = TRUE
               /\ now' = IF Truthy(req.id) THEN now ELSE t2
               /\ last' = Answer("save", req.id, req.name, 200)
          ELSE /\ UNCHANGED <<datasets, docExists, docParses, now>>
               /\ last' = Answer("save", IF status = 404 THEN req.id ELSE None, "", status)
       /\ UNCHANGED <<rmFailed, raceVars, cacheVars, parseVars, queryVars>>

\* the HTTP status api_delete answers with
delete_status_unguarded(exists, parses, ds, id) ==
    IF ~exists \/ ~parses THEN 500
    ELSE IF find_entry(ds, id) = 0 THEN 404
    ELSE 200

delete_status(exists, parses, ds, id) ==
    IF ~exists THEN 404
    ELSE IF ~parses THEN 500       \* json.load raises, nothing catches it
    ELSE IF find_entry(ds, id) = 0 THEN 404
    ELSE 200

\* "Delete data file": removed is whether os.remove succeeds
delete_data_file(fs, filename, removed) ==
    IF filename \in DOMAIN fs /\ removed THEN remove_file(fs, filename) ELSE fs

\* POST /api/delete
api_delete(id, removed) ==
    LET status == delete_status(docExists, docParses, datasets, id)
    IN IF status = 200
       THEN LET target == datasets[find_entry(datasets, id)]
            IN /\ files' = delete_data_file(files, target.filename, removed)
               /\ rmFailed' = (rmFailed \/ (target.filename \in DOMAIN files /\ ~removed))
               /\ datasets' = remove_entries(datasets, id)
               /\ last' = Answer("delete", id, "", 200)
               /\ UNCHANGED <<docExists, docParses, now>>
       ELSE /\ last' = Answer("delete", id, "", status)
            /\ UNCHANGED <<files, rmFailed, datasets, docExists, docParses, now>>

Delete(id, removed) ==
    /\ api_delete(id, removed)
    /\ UNCHANGED <<raceVars, cacheVars, parseVars, queryVars>>

\* a second passes
Tick ==
    /\ now < MaxTime
    /\ now' = now + 1
    /\ last' = Answer("tick", None, "", 0)
    /\ UNCHANGED <<docExists, docParses, datasets, files, rmFailed>>
    /\ UNCHANGED <<raceVars, cacheVars, parseVars, queryVars>>

IdleRace  == procs = <<>> /\ started = 0 /\ lastWriter = <<>>
IdleCache == cache = <<>> /\ fetches = {} /\ mapResp = <<>>
IdleParse == pinput = <<>> /\ poutput = <<>>
IdleQuery == qinput = <<>> /\ qoutput = <<>>

InitStore ==
    /\ now = 0
    /\ docExists = FALSE
    /\ docParses = TRUE
    /\ datasets = <<>>
    /\ files = <<>>
    /\ last = Answer("init", None, "", 0)
    /\ rmFailed = FALSE

Init == InitStore /\ IdleRace /\ IdleCache /\ IdleParse /\ IdleQuery

\* the second reading of the clock is that of the first or a second later
LaterReadings == now..Min(now + 1, MaxTime)

Save == \E req \in SaveRequests, raw \in Answers :
            \E t2 \in IF raw = GoodAnswer /\ ~Truthy(req.id) THEN LaterReadings ELSE {now} :
               api_save(req, raw, t2)
Remove == \E id \in Ids \cup {EmptyId}, removed \in BOOLEAN : Delete(id, removed)

Next == Save \/ Remove \/ Tick

Spec == Init /\ [][Next]_vars

-----------------------------------------------------------------------------
(* Properties of the store *)

GoodBindings == GoodAnswer.bindings
TypeOf(name) == (CHOOSE m \in Metas : m.name = name).type
Positions(ds) == 1..Len(ds)
Without(ds, i) == [j \in 1..(Len(ds) - 1) |-> IF j < i THEN ds[j] ELSE ds[j + 1]]

UniqueIds == \A i, j \in Positions(datasets) :
                 i # j => datasets[i].id # datasets[j].id

CreatedBySave == last'.op = "save" /\ last'.status = 200 /\ ~Truthy(last'.id)
UpdatedBySave == last'.op = "save" /\ last'.status = 200 /\ Truthy(last'.id)

\* C1: after any save or delete no two entries of the store share an id, and
\* a save without id appends an entry whose id and filename differ from those
\* of every entry that was already in the store.
C1_FreshIdAndFilename ==
    [][ /\ UniqueIds'
        /\ CreatedBySave =>
              LET e == datasets'[Len(datasets')]
              IN \A i \in Positions(load_datasets(docExists, docParses, datasets)) :
                    datasets[i].id # e.id /\ datasets[i].filename # e.filename ]_vars

\* C2: unless a removal of a data file has failed, every entry of the store
\* names a data file that exists and every data file is named by an entry.
C2_EntryAndFileTogether ==
    ~rmFailed =>
        /\ \A i \in Positions(datasets) : datasets[i].filename \in DOMAIN files
        /\ \A f \in DOMAIN files : \E i \in Positions(datasets) : datasets[i].filename = f

\* C4: a successful save with an id of the store replaces the entry at one
\* position that had this id, keeps its filename, writes the fetched records
\* to that file, and leaves the length, every other entry and every other
\* file as they were.
C4_UpdateInPlace ==
    [][ UpdatedBySave =>
          \E i \in Positions(datasets) :
             /\ docExists /\ docExists'
             /\ datasets[i].id = last'.id
             /\ Len(datasets') = Len(datasets)
             /\ datasets'[i] = [id |-> last'.id, name |-> last'.name,
                                type |-> TypeOf(last'.name),
                                filename |-> datasets[i].filename,
                                data_keys |-> datasets'[i].data_keys]
             /\ \A j \in Positions(datasets) \ {i} : datasets'[j] = datasets[j]
             /\ DOMAIN files' = DOMAIN files \cup {datasets[i].filename}
             /\ files'[datasets[i].filename]
                    = parse_results(GoodBindings, TypeOf(last'.name))
             /\ \A f \in DOMAIN files \ {datasets[i].filename} : files'[f] = files[f]
      ]_vars

C4_Updated ==
    /\ last.op = "save" /\ last.status = 200 /\ Truthy(last.id)
    /\ Len(datasets) = 2
    /\ datasets[1].id # last.id /\ datasets[2].id = last.id
    /\ datasets[2].name = last.name

\* C5: a save answered 500, 400 or 404 leaves datasets.json and every data
\* file as they were.
C5_FailedSaveChangesNothing ==
    [][ (last'.op = "save" /\ last'.status \in {500, 400, 404})
            => UNCHANGED <<docExists, docParses, datasets, files>> ]_vars

C5_SaveFailed ==
    /\ last.op = "save" /\ last.status = 400
    /\ docExists /\ Len(datasets) >= 1 /\ DOMAIN files # {}

\* C6: a delete whose id no entry has, or that finds no datasets.json, is
\* answered 404 and leaves datasets.json and every data file as they were.
C6_DeleteUnknownId ==
    [][ (last'.op = "delete"
            /\ (~docExists \/ \A i \in Positions(datasets) : datasets[i].id # last'.id))
            => /\ last'.status = 404
               /\ UNCHANGED <<docExists, docParses, datasets, files>> ]_vars

C6_DeleteRefused ==
    /\ last.op = "delete" /\ last.status = 404
    /\ docExists /\ Len(datasets) >= 1 /\ DOMAIN files # {}

\* C7: a successful delete removes the entry with the id and nothing else from
\* the list, whether or not the data file could be removed; the file is gone
\* when the removal succeeded and is left behind when it failed.
C7_DeleteRemovesOneEntry ==
    [][ (last'.op = "delete" /\ last'.status = 200) =>
          \E i \in Positions(datasets) :
             /\ datasets[i].id = last'.id
             /\ datasets' = Without(datasets, i)
             /\ docExists'
             /\ \/ datasets[i].filename \notin DOMAIN files'
                \/ (rmFailed' /\ files' = files)
             /\ \A f \in DOMAIN files \ {datasets[i].filename} :
                    f \in DOMAIN files' /\ files'[f] = files[f]
      ]_vars

-----------------------------------------------------------------------------
(* The store when datasets.json can stop being valid JSON. Both writers
   open it with mode "w", which truncates, and json.dump streams the text,
   so a writer stopped before the closing bracket leaves a text that holds
   the entries and does not parse; so does an edit of the file by hand. *)

\* datasets.json is left unparsable; the entries written in it stay in the text
Damage ==
    /\ docExists /\ docParses
    /\ docParses' = FALSE
    /\ last' = Answer("damage", None, "", 0)
    /\ UNCHANGED <<now, docExists, datasets, files, rmFailed>>
    /\ UNCHANGED <<raceVars, cacheVars, parseVars, queryVars>>

NextDamaged == Save \/ Remove \/ Tick \/ Damage

SpecDamaged == Init /\ [][NextDamaged]_vars

\* C11: a successful save without id leaves every entry written in
\* datasets.json where and as it was and adds one entry after them, also
\* when datasets.json exists and does not parse.
C11_CreateKeepsEntries ==
    [][ (last'.op = "save" /\ last'.status = 200 /\ ~Truthy(last'.id))
            => /\ Len(datasets') = Len(datasets) + 1
               /\ \A i \in Positions(datasets) : datasets'[i] = datasets[i] ]_vars

\* a save without id has replaced an unparsable document
C11_DamagedOverwritten ==
    /\ last.op = "save" /\ last.status = 200 /\ ~Truthy(last.id)
    /\ docExists /\ docParses /\ Len(datasets) = 1

\* the other handlers leave an unparsable document alone: an update is
\* answered 404 and a delete 500, and nothing is written
DamagedLeftAlone ==
    [][ (~docParses /\ last'.op \in {"save", "delete"} /\ ~(last'.op = "save" /\ ~Truthy(last'.id) /\ last'.status = 200))
            => /\ UNCHANGED <<docExists, docParses, datasets, files>>
               /\ last'.status \in {500, 400, 404} ]_vars

-----------------------------------------------------------------------------
(* parse_results on its own: every list of up to MaxRows binding rows *)

RECURSIVE SeqsUpTo(_, _)
SeqsUpTo(S, n) ==
    IF n = 0 THEN {<<>>}
    ELSE LET shorter == SeqsUpTo(S, n - 1)
         IN shorter \cup {Append(q, x) : q \in {r \in shorter : Len(r) = n - 1}, x \in S}

Wkts == { <<"Point(", "1", " ", "2", ")">>,
          <<"Point(", "2", "1", " ", " ", "1", ")">>,
          <<"1", " ", "2">>,
          <<"Point(", "1", ")">>,
          <<"Point(", "1", " ", "x", ")">>,
          <<"Point(", "1", " ", "2", " ", "1", ")">>,
          <<>> }

BindingRow(label, item, coord, shape) ==
    [itemLabel |-> label, item |-> item, coord |-> coord, geoShapeUrl |-> shape]

Rows ==
    {BindingRow(<<"L">>, <<<<"http:", "", "wd", "entity", "Q1">>>>, <<w>>, <<"shape">>) :
        w \in Wkts}
    \cup {BindingRow(Missing, <<<<"entity", "Q2">>>>,
                     <<<<"Point(", "1", " ", "2", ")">>>>, <<"shape">>),
          BindingRow(<<"L">>, Missing, <<<<"Point(", "1", " ", "2", ")">>>>, <<"shape">>),
          BindingRow(<<"L">>, <<<<"entity", "Q4">>>>,
                     <<<<"Point(", "2", " ", "1", ")">>>>, Missing),
          BindingRow(<<"L">>, <<<<"Q5">>>>, Missing, <<"shape5">>),
          BindingRow(<<"M">>, <<<<"entity", "Q6">>>>, Missing, Missing)}

DatasetTypes == {"point", "polygon", "line"}

InitParse ==
    /\ pinput \in {[bindings |-> b, dataset_type |-> t] :
                      b \in SeqsUpTo(Rows, MaxRows), t \in DatasetTypes}
    /\ poutput = [returned |-> FALSE, results |-> <<>>]

\* one call of parse_results
Parse ==
    /\ ~poutput.returned
    /\ poutput' = [returned |-> TRUE,
                   results |-> parse_results(pinput.bindings, pinput.dataset_type)]
    /\ UNCHANGED <<pinput, storeVars, raceVars, cacheVars, queryVars>>

InitSpecParse == InitParse /\ InitStore /\ IdleRace /\ IdleCache /\ IdleQuery

SpecParse == InitSpecParse /\ [][Parse]_vars

IsBlank(c) == c = " "
IsDigit(c) == c \in Digits

\* a coordinate literal float() and the two-way unpacking accept: apart from
\* "Point(" and ")", two runs of digits with blanks between and around them
Parseable(wkt) ==
    LET c == SelectSeq(wkt, LAMBDA x : x # "Point(" /\ x # ")")
    IN \E i, j, k, l \in 1..Len(c) :
          /\ i <= j /\ j + 1 < k /\ k <= l
          /\ \A m \in 1..Len(c) :
                IF (i <= m /\ m <= j) \/ (k <= m /\ m <= l)
                THEN IsDigit(c[m]) ELSE IsBlank(c[m])

Carries(row, dataset_type) ==
    /\ row.itemLabel # <<>> /\ row.item # <<>>
    /\ dataset_type = "point" => (row.coord # <<>> /\ Parseable(row.coord[1]))
    /\ dataset_type = "polygon" => row.geoShapeUrl # <<>>

RequiredFields(dataset_type) ==
    {"label", "id"}
    \cup (IF dataset_type = "point" THEN {"lat", "lng"} ELSE {})
    \cup (IF dataset_type = "polygon" THEN {"geoShapeUrl"} ELSE {})

\* C9: parse_results returns one record for each row that carries label,
\* subject URI and the field its dataset_type requires, in the order of the
\* rows, skipping every other row; each record has the label and the last URI
\* segment of its row and exactly the fields of its dataset_type.
C9_ValidRowsInOrder ==
    poutput.returned =>
        LET t    == pinput.dataset_type
            kept == SelectSeq(pinput.bindings, LAMBDA r : Carries(r, t))
            out  == poutput.results
        IN /\ Len(out) = Len(kept)
           /\ \A k \in 1..Len(kept) :
                 /\ DOMAIN out[k] = RequiredFields(t)
                 /\ out[k].label = kept[k].itemLabel[1]
                 /\ out[k].id = kept[k].item[1][Len(kept[k].item[1])]
                 /\ t = "polygon" => out[k].geoShapeUrl = kept[k].geoShapeUrl[1]

C9_MiddleRowSkipped ==
    /\ poutput.returned
    /\ pinput.dataset_type = "point"
    /\ Len(pinput.bindings) = 3
    /\ Carries(pinput.bindings[1], "point")
    /\ pinput.bindings[2].coord = <<>>
    /\ Carries(pinput.bindings[3], "point")
    /\ Len(poutput.results) = 2
    /\ poutput.results[1].id = "Q1" /\ poutput.results[2].id = "Q4"
    /\ poutput.results[2].lng = 2 /\ poutput.results[2].lat = 1

-----------------------------------------------------------------------------
(* build_query: the query is the sequence of the fragments the code appends
   to `sparql`; a property string is the sequence of its characters, with the
   identifier after the markers as one character *)

NL == "\n"

startswith_minus(prop) == prop # <<>> /\ Head(prop) = "-"

\* the body of `for c in config.constraints` for one constraint
constraint_kept_marker(prop, val) ==
    IF startswith_minus(prop)
    THEN <<"  FILTER NOT EXISTS { ?item wdt:">> \o prop \o <<" wd:", val, ". }", NL>>
    ELSE <<"  ?item wdt:">> \o prop \o <<" wd:", val, ".", NL>>

constraint_clause(prop, val) ==
    IF startswith_minus(prop)
    THEN <<"  FILTER NOT EXISTS { ?item wdt:">> \o Tail(prop) \o <<" wd:", val, ". }", NL>>
    ELSE <<"  ?item wdt:">> \o prop \o <<" wd:", val, ".", NL>>

RECURSIVE constraint_clauses(_)
constraint_clauses(constraints) ==
    IF constraints = <<>> THEN <<>>
    ELSE constraint_clause(Head(constraints).property, Head(constraints).value)
         \o constraint_clauses(Tail(constraints))

select_columns(dataset_type) ==
    <<"SELECT DISTINCT ?item ?itemLabel ">>
    \o (IF dataset_type = "point" THEN <<"?coord ">>
        ELSE IF dataset_type = "polygon" THEN <<"?geoShapeUrl ">> ELSE <<>>)
    \o <<"?sitelinks ", "WHERE {", NL>>

filters(min_pop, exclude_dissolved) ==
    (IF min_pop > 0
     THEN <<"  ?item wdt:P1082 ?pop. FILTER(?pop >= ", ToString(min_pop), ").", NL>>
     ELSE <<>>)
    \o (IF exclude_dissolved
        THEN <<"  FILTER NOT EXISTS { ?item wdt:P576 ?end. }", NL>> ELSE <<>>)

geometry(dataset_type) ==
    IF dataset_type = "point" THEN <<"  ?item wdt:P625 ?coord.", NL>>
    ELSE IF dataset_type = "polygon" THEN <<"  ?item wdt:P3896 ?geoShapeUrl.", NL>>
    ELSE <<>>

query_tail(limit) ==
    <<"  ?item wikibase:sitelinks ?sitelinks.", NL,
      "  SERVICE wikibase:label { bd:serviceParam wikibase:language \"[AUTO_LANGUAGE],en\". }", NL,
      "}", NL,
      "ORDER BY DESC(?sitelinks)", NL,
      "LIMIT ", ToString(limit)>>

\* server.py
build_query(config) ==
    select_columns(config.dataset_type)
    \o <<"  ?item wdt:P31/wdt:P279* wd:", config.item_type, ".", NL>>
    \o constraint_clauses(config.constraints)
    \o filters(config.min_pop, config.exclude_dissolved)
    \o geometry(config.dataset_type)
    \o query_tail(config.limit)

\* manage_datasets.py: the same text from positional arguments, the
\* constraints being (prop, val) pairs
RECURSIVE cli_constraint_clauses(_)
cli_constraint_clauses(constraints) ==
    IF constraints = <<>> THEN <<>>
    ELSE LET prop == Head(constraints)[1]
             val  == Head(constraints)[2]
         IN (IF startswith_minus(prop)
             THEN <<"  FILTER NOT EXISTS { ?item wdt:">> \o Tail(prop)
                      \o <<" wd:", val, ". }", NL>>
             ELSE <<"  ?item wdt:">> \o prop \o <<" wd:", val, ".", NL>>)
            \o cli_constraint_clauses(Tail(constraints))

cli_build_query(item_type_id, constraints, dataset_type, min_pop, exclude_dissolved, limit) ==
    select_columns(dataset_type)
    \o <<"  ?item wdt:P31/wdt:P279* wd:", item_type_id, ".", NL>>
    \o cli_constraint_clauses(constraints)
    \o filters(min_pop, exclude_dissolved)
    \o geometry(dataset_type)
    \o query_tail(limit)

Properties == {<<"P17">>, <<"-", "P17">>, <<"-", "-", "P30">>, <<>>}
Values == {"Q183", "Q46"}
Constraints == {[property |-> p, value |-> v] : p \in Properties, v \in Values}
Configs ==
    {[item_type |-> "Q515", constraints |-> cs, dataset_type |-> t,
      min_pop |-> m, exclude_dissolved |-> x, limit |-> 100] :
        cs \in SeqsUpTo(Constraints, MaxConstraints), t \in DatasetTypes,
        m \in {0, 5}, x \in BOOLEAN}

InitQuery ==
    /\ qinput \in Configs
    /\ qoutput = [returned |-> FALSE, server |-> <<>>, cli |-> <<>>]

\* one call of build_query, in the server and in the dataset manager
Build ==
    /\ ~qoutput.returned
    /\ qoutput' =
          [returned |-> TRUE,
           server |-> build_query(qinput),
           cli |-> cli_build_query(
                       qinput.item_type,
                       [k \in 1..Len(qinput.constraints) |->
                           <<qinput.constraints[k].property, qinput.constraints[k].value>>],
                       qinput.dataset_type, qinput.min_pop,
                       qinput.exclude_dissolved, qinput.limit)]
    /\ UNCHANGED <<qinput, storeVars, raceVars, cacheVars, parseVars>>

InitSpecQuery == InitQuery /\ InitStore /\ IdleRace /\ IdleCache /\ IdleParse

SpecQuery == InitSpecQuery /\ [][Build]_vars

\* the lines of a query: its fragments between the line ends
RECURSIVE LinesOf(_, _, _)
LinesOf(q, line, acc) ==
    IF q = <<>> THEN (IF line = <<>> THEN acc ELSE Append(acc, line))
    ELSE IF Head(q) = NL THEN LinesOf(Tail(q), <<>>, Append(acc, line))
         ELSE LinesOf(Tail(q), Append(line, Head(q)), acc)

PositiveClause(p, v) == <<"  ?item wdt:">> \o p \o <<" wd:", v, ".">>
NegatedClause(p, v) == <<"  FILTER NOT EXISTS { ?item wdt:">> \o p \o <<" wd:", v, ". }">>
IsConstraintLine(l) ==
    /\ Len(l) >= 4
    /\ l[1] \in {"  ?item wdt:", "  FILTER NOT EXISTS { ?item wdt:"}
    /\ l[Len(l) - 2] = " wd:"
IsFilterLine(l) ==
    l[1] \in {"  ?item wdt:P1082 ?pop. FILTER(?pop >= ",
              "  FILTER NOT EXISTS { ?item wdt:P576 ?end. }"}

ConstraintsCompiled(q, config) ==
    LET ls == LinesOf(q, <<>>, <<>>)
        cs == config.constraints
        n  == Len(cs)
    IN /\ Len(ls) >= n + 2
       /\ ls[2] = <<"  ?item wdt:P31/wdt:P279* wd:", config.item_type, ".">>
       /\ \A k \in 1..n :
             LET p == cs[k].property
             IN ls[2 + k] = IF p # <<>> /\ p[1] = "-"
                            THEN NegatedClause(SubSeq(p, 2, Len(p)), cs[k].value)
                            ELSE PositiveClause(p, cs[k].value)
       /\ Cardinality({i \in 1..Len(ls) : IsConstraintLine(ls[i])}) = n
       /\ \A i \in 1..Len(ls) : IsFilterLine(ls[i]) => i > n + 2
       /\ (config.min_pop > 0 \/ config.exclude_dissolved) => IsFilterLine(ls[n + 3])

\* C10: in the query of both build_query functions, lines 3..n+2 are the
\* clauses of the n constraints in list order, directly after the root
\* instance-of line and before the population and dissolved filters; no other
\* line is a constraint clause; a property starting with '-' gives the
\* FILTER NOT EXISTS clause on the property without its first character and
\* the value, any other property the positive triple pattern.
C10_OneClausePerConstraint ==
    qoutput.returned =>
        /\ ConstraintsCompiled(qoutput.server, qinput)
        /\ ConstraintsCompiled(qoutput.cli, qinput)

C10_NegatedConstraintCompiled ==
    /\ qoutput.returned
    /\ qinput.constraints = <<[property |-> <<"P17">>, value |-> "Q46"],
                              [property |-> <<"-", "P17">>, value |-> "Q183"]>>
    /\ qinput.min_pop > 0 /\ qinput.exclude_dissolved
    /\ LinesOf(qoutput.server, <<>>, <<>>)[4]
          = <<"  FILTER NOT EXISTS { ?item wdt:", "P17", " wd:", "Q183", ". }">>

-----------------------------------------------------------------------------
(* proxy_map: the cache of shape files under static/maps. A url is the
   sequence of its characters; md5 is taken to be free of collisions. *)

\* url.replace("+", " ")
replace_plus(url) == [i \in 1..Len(url) |-> IF url[i] = "+" THEN " " ELSE url[i]]

\* hashlib.md5(url.encode()).hexdigest() + ".json"
md5_filename(url) == <<"md5", url>>

cache_key_raw(url) == md5_filename(url)

\* the cache file a request for `url` uses
cache_key(url) == md5_filename(replace_plus(url))

Urls == {<<"u", "+", "v">>, <<"u", " ", "v">>, <<"u", "v">>, <<"+">>, <<" ">>}
\* what the upstream server answers: an error (or a non-2xx status), or bytes
Upstream == {[ok |-> FALSE, content |-> ""],
             [ok |-> TRUE, content |-> "b1"],
             [ok |-> TRUE, content |-> "b2"]}

MapResponse(url, status, body, fetched) ==
    [url |-> url, status |-> status, body |-> body, fetched |-> fetched]

\* GET /proxy_map?url=...; written is whether f.write succeeds once the file
\* has been opened for writing
proxy_map(url, upstream, written) ==
    LET file_path == cache_key(url)
    IN /\ IF file_path \in DOMAIN cache
          THEN /\ mapResp' = MapResponse(url, 200, cache[file_path], FALSE)
               /\ UNCHANGED <<cache, fetches>>
          ELSE IF ~upstream.ok
          THEN /\ mapResp' = MapResponse(url, 500, "", TRUE)
               /\ UNCHANGED <<cache, fetches>>
          ELSE /\ fetches' = fetches \cup {url}
               /\ IF written
                  THEN /\ cache' = write_file(cache, file_path, upstream.content)
                       /\ mapResp' = MapResponse(url, 200, upstream.content, TRUE)
                  ELSE /\ cache' = write_file(cache, file_path, "")
                       /\ mapResp' = MapResponse(url, 500, "", TRUE)
       /\ UNCHANGED <<storeVars, raceVars, parseVars, queryVars>>

InitCache ==
    /\ cache = <<>>
    /\ fetches = {}
    /\ mapResp = MapResponse(<<>>, 0, "", FALSE)

ProxyMap == \E url \in Urls, upstream \in Upstream, written \in BOOLEAN :
                proxy_map(url, upstream, written)

InitSpecCache == InitCache /\ InitStore /\ IdleRace /\ IdleParse /\ IdleQuery

SpecCache == InitSpecCache /\ [][ProxyMap]_vars

PlusAsSpace(c) == IF c = "+" THEN " " ELSE c
SameAfterPlus(u, v) ==
    Len(u) = Len(v) /\ \A i \in 1..Len(u) : PlusAsSpace(u[i]) = PlusAsSpace(v[i])

\* C8: a cache file exists only for a key some successful upstream request
\* was made for; a request whose url equals, after '+' -> ' ', a url already
\* fetched with success issues no upstream request; a request whose upstream
\* request failed is answered 500 and changes no cache file; and a request
\* for a key that has a cache file issues no upstream request, is answered
\* with the file's content and leaves the cache as it was.
C8_CacheOnceServeForever ==
    [][ /\ \A k \in DOMAIN cache' : \E u \in fetches' : cache_key(u) = k
        /\ (\E u \in fetches : SameAfterPlus(u, mapResp'.url))
              => ~mapResp'.fetched
        /\ (mapResp'.fetched /\ fetches' = fetches)
              => (mapResp'.status = 500 /\ cache' = cache)
        /\ cache_key(mapResp'.url) \in DOMAIN cache
              => /\ ~mapResp'.fetched
                 /\ mapResp'.status = 200
                 /\ mapResp'.body = cache[cache_key(mapResp'.url)]
                 /\ cache' = cache /\ fetches' = fetches
      ]_vars

C8_ServedFromCache ==
    /\ mapResp.url = <<"u", "+", "v">>
    /\ ~mapResp.fetched /\ mapResp.status = 200 /\ mapResp.body = "b2"
    /\ fetches = {<<"u", " ", "v">>}

-----------------------------------------------------------------------------
(* Concurrent writers of datasets.json.

   Inside one server process a handler runs without interruption (it is a
   coroutine that never awaits), so requests are handled at the same time
   only by separate worker processes serving the same directory; the dataset
   manager is one more process writing the same files, run once. Each writer runs the
   code of its handler, one access to the shared files after the other, and
   keeps its local variables in procs. No writer takes a lock. *)

Workers == {"worker1", "worker2"}   \* server processes, one request at a time each
Manager == "manager"                \* manage_datasets.py
Writers == Workers \cup {Manager}

IdleProc == [pc |-> "idle", op |-> "", serial |-> 0, id |-> None, type |-> "",
             filename |-> None, datasets |-> <<>>, missed |-> {}]

\* the dataset manager after main() has returned: the process is gone
ExitedProc == [IdleProc EXCEPT !.pc = "exited"]

\* the local variable `datasets` of a writer: what it read from datasets.json
held_datasets_reread(p) == load_datasets(docExists, docParses, datasets)

held_datasets(p) == procs[p].datasets

\* the requests whose write of datasets.json a writer has not seen: those
\* written after it read the document
HoldsCopy(q) ==
    \/ procs[q].pc = "loaded"
    \/ procs[q].pc = "filed" /\ procs[q].op # "main"

\* json.dump(datasets, f) into datasets.json by writer p
write_document(p, ds) ==
    /\ datasets' = ds
    /\ docExists' = TRUE
    /\ docParses' = TRUE
    /\ lastWriter' = [serial |-> procs[p].serial, op |-> procs[p].op,
                      id |-> procs[p].id, before |-> procs[p].datasets,
                      lost |-> procs[p].missed]
    /\ procs' = [q \in Writers |->
                    IF q = p THEN (IF p = Manager THEN ExitedProc ELSE IdleProc)
                    ELSE IF HoldsCopy(q)
                    THEN [procs[q] EXCEPT !.missed =
                             @ \cup {[serial |-> procs[p].serial, op |-> procs[p].op,
                                      id |-> procs[p].id]}]
                    ELSE procs[q]]

Begin(p) == procs[p].pc = "idle" /\ started < MaxRequests

\* api_save, lines 177-194: fetch, parse, answer 500 or 400, else read
\* datasets.json
save_load(p, req, raw) ==
    LET loaded == load_datasets(docExists, docParses, datasets)
    IN /\ Begin(p)
       /\ IF raw.ok /\ parse_results(raw.bindings, req.type) # <<>>
          THEN /\ started' = started + 1
               /\ procs' = [procs EXCEPT ![p] =
                              [IdleProc EXCEPT !.pc = "loaded", !.op = "save",
                                               !.serial = started + 1, !.id = req.id,
                                               !.type = req.type, !.datasets = loaded]]
          ELSE UNCHANGED <<procs, started>>
       /\ UNCHANGED <<storeVars, lastWriter, cacheVars, parseVars, queryVars>>

\* api_save, lines 196-213: answer 404, or settle id and filename and write
\* the data file
save_file(p, t2) ==
    LET me       == procs[p]
        req      == [id |-> me.id, name |-> me.serial, type |-> me.type]
        loaded   == held_datasets(p)
        filename == save_filename(req, loaded, t2)
        id       == save_id(req, now)
    IN /\ me.pc = "loaded" /\ me.op = "save"
       /\ IF Truthy(me.id) /\ find_entry(loaded, me.id) = 0
          THEN /\ procs' = [procs EXCEPT ![p] = IdleProc]
               /\ UNCHANGED <<files, now>>
          ELSE /\ ~Truthy(me.id) => Len(loaded) < MaxEntries
               /\ files' = write_file(files, filename,
                                      parse_results(GoodAnswer.bindings, me.type))
               /\ now' = IF Truthy(me.id) THEN now ELSE t2
               /\ procs' = [procs EXCEPT ![p].pc = "filed", ![p].id = id,
                                         ![p].filename = filename,
                                         ![p].op = IF Truthy(me.id) THEN "update"
                                                   ELSE "save"]
       /\ UNCHANGED <<docExists, docParses, datasets, last, rmFailed, started, lastWriter,
                      cacheVars, parseVars, queryVars>>

\* api_save, lines 215-246: build the entry, put it into the list that was
\* read, write datasets.json, answer 200
save_write(p) ==
    LET me    == procs[p]
        req   == [id |-> IF me.op = "update" THEN me.id ELSE None,
                  name |-> me.serial, type |-> me.type]
        entry == new_entry(me.id, req, me.filename)
    IN /\ me.pc = "filed" /\ me.op \in {"save", "update"}
       /\ write_document(p, save_datasets(held_datasets(p), req, entry))
       /\ UNCHANGED <<now, files, last, rmFailed, started, cacheVars, parseVars, queryVars>>

\* api_delete, lines 250-258: answer 404, or read datasets.json and find the
\* target
delete_load(p, id) ==
    /\ Begin(p)
    /\ IF delete_status(docExists, docParses, datasets, id) = 200
       THEN /\ started' = started + 1
            /\ procs' = [procs EXCEPT ![p] =
                           [IdleProc EXCEPT !.pc = "loaded", !.op = "delete",
                                            !.serial = started + 1, !.id = id,
                                            !.datasets = datasets]]
       ELSE UNCHANGED <<procs, started>>
    /\ UNCHANGED <<storeVars, lastWriter, cacheVars, parseVars, queryVars>>

\* api_delete, lines 260-266
delete_file(p, removed) ==
    LET me     == procs[p]
        target == held_datasets(p)[find_entry(held_datasets(p), me.id)]
    IN /\ me.pc = "loaded" /\ me.op = "delete"
       /\ files' = delete_data_file(files, target.filename, removed)
       /\ rmFailed' = (rmFailed \/ (target.filename \in DOMAIN files /\ ~removed))
       /\ procs' = [procs EXCEPT ![p].pc = "filed"]
       /\ UNCHANGED <<now, docExists, docParses, datasets, last, started, lastWriter,
                      cacheVars, parseVars, queryVars>>

\* api_delete, lines 268-274
delete_write(p) ==
    /\ procs[p].pc = "filed" /\ procs[p].op = "delete"
    /\ write_document(p, remove_entries(held_datasets(p), procs[p].id))
    /\ UNCHANGED <<now, files, last, rmFailed, started, cacheVars, parseVars, queryVars>>

\* manage_datasets.py main, lines 253-260, reached once the fetch gave
\* records and the user confirmed: mint the filename, write the data file
main_file(req, raw) ==
    /\ Begin(Manager)
    /\ IF raw.ok /\ parse_results(raw.bindings, req.type) # <<>>
       THEN /\ started' = started + 1
            /\ files' = write_file(files, dataset_filename(now),
                                   parse_results(raw.bindings, req.type))
            /\ procs' = [procs EXCEPT ![Manager] =
                           [IdleProc EXCEPT !.pc = "filed", !.op = "main",
                                            !.serial = started + 1, !.type = req.type,
                                            !.filename = dataset_filename(now)]]
       ELSE UNCHANGED <<procs, started, files>>
    /\ UNCHANGED <<now, docExists, docParses, datasets, last, rmFailed, lastWriter,
                   cacheVars, parseVars, queryVars>>

\* main, lines 262-282: mint the id, read datasets.json ([] when missing)
main_load ==
    /\ procs[Manager].pc = "filed" /\ procs[Manager].op = "main"
    /\ procs' = [procs EXCEPT ![Manager].pc = "loaded",
                              ![Manager].id = custom_id(now),
                              ![Manager].datasets = load_datasets(docExists, docParses, datasets)]
    /\ UNCHANGED <<storeVars, started, lastWriter, cacheVars, parseVars, queryVars>>

\* main, lines 284-287
main_write ==
    LET me    == procs[Manager]
        req   == [id |-> None, name |-> me.serial, type |-> me.type]
    IN /\ me.pc = "loaded" /\ me.op = "main"
       /\ Len(held_datasets(Manager)) < MaxEntries
       /\ write_document(Manager, Append(held_datasets(Manager),
                                         new_entry(me.id, req, me.filename)))
       /\ UNCHANGED <<now, files, last, rmFailed, started, cacheVars, parseVars, queryVars>>

RaceTick ==
    /\ now < MaxTime
    /\ now' = now + 1
    /\ UNCHANGED <<docExists, docParses, datasets, files, last, rmFailed>>
    /\ UNCHANGED <<raceVars, cacheVars, parseVars, queryVars>>

InitRace ==
    /\ procs = [p \in Writers |-> IdleProc]
    /\ started = 0
    /\ lastWriter = [serial |-> 0, op |-> "", id |-> None, before |-> <<>>, lost |-> {}]

RaceRequests == {[id |-> i, name |-> 0, type |-> "point"] : i \in Ids \cup {None}}

WorkerStep(p) ==
    \/ \E req \in RaceRequests, raw \in {FetchFailed, GoodAnswer} : save_load(p, req, raw)
    \/ \E t2 \in now..Min(now + 1, MaxTime) : save_file(p, t2)
    \/ save_write(p)
    \/ \E id \in Ids : delete_load(p, id)
    \/ \E removed \in BOOLEAN : delete_file(p, removed)
    \/ delete_write(p)

ManagerStep ==
    \/ \E req \in {r \in RaceRequests : r.id = None}, raw \in {FetchFailed, GoodAnswer} :
          main_file(req, raw)
    \/ main_load
    \/ main_write

\* two server processes handling requests at the same time
NextRace == (\E p \in Workers : WorkerStep(p)) \/ RaceTick

InitSpecRace == InitStore /\ InitRace /\ IdleCache /\ IdleParse /\ IdleQuery

SpecRace == InitSpecRace /\ [][NextRace]_vars

\* one server process and a run of the dataset manager
NextManagerRace == WorkerStep("worker1") \/ ManagerStep \/ RaceTick

SpecManagerRace == InitSpecRace /\ [][NextManagerRace]_vars

Named(ds, n) == \E i \in Positions(ds) : ds[i].name = n
ServerOps == {"save", "update", "delete"}
AllIdle == \A p \in Writers : procs[p].pc \in {"idle", "exited"}

\* C3: the document a writer leaves is the list it read with its own change
\* and nothing else, so every entry saved by a request that wrote between
\* this writer's read and its write is missing from the document, and every
\* entry such a request deleted, and this writer had read, is in it again.
C3_LastWriteWins ==
    lastWriter.serial # 0 =>
        LET w      == lastWriter
            before == w.before
        IN /\ docExists
           /\ w.op \in {"save", "main"} =>
                 /\ Len(datasets) = Len(before) + 1
                 /\ \A i \in Positions(before) : datasets[i] = before[i]
                 /\ datasets[Len(datasets)].name = w.serial
           /\ w.op = "update" =>
                 /\ Len(datasets) = Len(before)
                 /\ \E i \in Positions(before) :
                       /\ before[i].id = w.id /\ datasets[i].name = w.serial
                       /\ \A j \in Positions(before) \ {i} : datasets[j] = before[j]
           /\ w.op = "delete" =>
                 datasets = SelectSeq(before, LAMBDA d : d.id # w.id)
           /\ \A m \in w.lost :
                 /\ m.op \in {"save", "update", "main"} => ~Named(datasets, m.serial)
                 /\ m.op = "delete" =>
                       \A i \in Positions(before) :
                          (before[i].id = m.id /\ (w.op \in {"save", "main"} \/ w.id # m.id))
                             => \E j \in Positions(datasets) : datasets[j] = before[i]

\* two server requests were answered 200, and the entry the first one saved
\* is not in the document the second one left
C3_SaveLost ==
    /\ AllIdle
    /\ lastWriter.op \in ServerOps
    /\ \E m \in lastWriter.lost : m.op = "save" /\ ~Named(datasets, m.serial)

\* the same with the dataset manager as the writer that overwrites
C3_SaveLostToManager ==
    /\ AllIdle
    /\ lastWriter.op = "main"
    /\ \E m \in lastWriter.lost : m.op = "save" /\ ~Named(datasets, m.serial)

\* two server requests were answered 200, and the entry the first one deleted
\* is in the document the second one left
C3_DeleteUndone ==
    /\ AllIdle
    /\ lastWriter.op \in ServerOps
    /\ \E m \in lastWriter.lost :
          /\ m.op = "delete"
          /\ \E i \in Positions(datasets), j \in Positions(lastWriter.before) :
                datasets[i].id = m.id /\ datasets[i] = lastWriter.before[j]

====
